---- MODULE Spec2Model ----
(***************************************************************************)
(* Model of sentence_transformers/models/CamemBERT.py: the CamemBERT       *)
(* adapter around a pretrained encoder and its tokenizer.                  *)
(*                                                                         *)
(* Python values are modelled as follows.  A dict is a function whose      *)
(* domain is its set of keys.  None/True/False are the strings "None",     *)
(* "True", "False" (so that an Optional[bool] is one comparable type).     *)
(* A list or a 1-d tensor is a sequence, a 2-d tensor a sequence of rows.  *)
(* The two default arguments model_args={} and tokenizer_args={} of        *)
(* __init__ are objects created once, when the def statement runs; their   *)
(* contents are the variables model_args_default, tokenizer_args_default.  *)
(***************************************************************************)
EXTENDS Integers, Sequences, FiniteSets, TLC

VARIABLES
    adapters,                \* the CamemBERT instance the caller holds, if any
    model_args_default,      \* content of the default object of model_args
    tokenizer_args_default,  \* content of the default object of tokenizer_args
    fs,                      \* directories: saved encoder, tokenizer, sidecar
    saved_from,              \* the adapter whose complete save "out" holds
    last                     \* the last call: arguments, outcome, result

vars == <<adapters, model_args_default, tokenizer_args_default, fs, saved_from, last>>

-----------------------------------------------------------------------------
(* Bounds *)

MaxTokens == 3
MaxPad == 3
MaxText == 2

-----------------------------------------------------------------------------
(* Python values *)

None == "None"
PyTrue == "True"
PyFalse == "False"

EmptyDict == [k \in {} |-> None]

\* d[k] = v on a dict
Put(d, k, v) == [x \in (DOMAIN d) \cup {k} |-> IF x = k THEN v ELSE d[x]]

\* d.update(e)
Update(d, e) == [x \in (DOMAIN d) \cup (DOMAIN e) |-> IF x \in DOMAIN e THEN e[x] ELSE d[x]]

Min(a, b) == IF a < b THEN a ELSE b

-----------------------------------------------------------------------------
(* The collaborators: transformers' CamembertModel and CamembertTokenizer *)

ClsId == 5
SepId == 6
PadId == 1

Dirs == {"hub", "out"}

NoEncoder == [present |-> FALSE, output_hidden_states |-> FALSE]
NoTokenizer == [present |-> FALSE, do_lower_case |-> PyFalse]
NoSidecar == [state |-> "missing", doc |-> EmptyDict]
BadSidecar == [state |-> "malformed", doc |-> EmptyDict]

\* the published pretrained model: encoder and tokenizer, no sidecar
HubDir == [enc |-> [present |-> TRUE, output_hidden_states |-> FALSE],
           tok |-> [present |-> TRUE, do_lower_case |-> PyFalse],
           sidecar |-> NoSidecar]

EmptyDir == [enc |-> NoEncoder, tok |-> NoTokenizer, sidecar |-> NoSidecar]

\* CamembertModel.from_pretrained(path, **kwargs): the configuration stored
\* at path, overridden by the keyword arguments; fails if nothing is stored
CamembertModel_from_pretrained(path, kwargs, fsys) ==
    IF ~fsys[path].enc.present
    THEN [ok |-> FALSE, obj |-> NoEncoder]
    ELSE [ok |-> TRUE,
          obj |-> [present |-> TRUE,
                   output_hidden_states |->
                       IF "output_hidden_states" \in DOMAIN kwargs
                       THEN kwargs["output_hidden_states"] = PyTrue
                       ELSE fsys[path].enc.output_hidden_states]]

\* CamembertTokenizer.from_pretrained(path, **kwargs)
CamembertTokenizer_from_pretrained(path, kwargs, fsys) ==
    IF ~fsys[path].tok.present
    THEN [ok |-> FALSE, obj |-> NoTokenizer]
    ELSE [ok |-> TRUE,
          obj |-> [present |-> TRUE,
                   do_lower_case |->
                       IF "do_lower_case" \in DOMAIN kwargs
                       THEN kwargs["do_lower_case"]
                       ELSE fsys[path].tok.do_lower_case]]

-----------------------------------------------------------------------------
(* CamemBERT.__init__ *)

config_keys == {"max_seq_length", "do_lower_case"}

\* the clamp with its threshold one too high (sensitivity of C1)
InitMaxSeqLength_OffByOne(max_seq_length) ==
    IF max_seq_length > 512
    THEN [value |-> 511, warned |-> TRUE]
    ELSE [value |-> max_seq_length, warned |-> FALSE]

\* lines 21-24: the clamp and its warning
InitMaxSeqLength(max_seq_length) ==
    IF max_seq_length > 511
    THEN [value |-> 511, warned |-> TRUE]
    ELSE [value |-> max_seq_length, warned |-> FALSE]

\* lines 26-27: the override is written into the dict object it was handed
InitTokenizerArgs(do_lower_case, tokenizer_args) ==
    IF do_lower_case # None
    THEN Put(tokenizer_args, "do_lower_case", do_lower_case)
    ELSE tokenizer_args

\* line 29: the keyword arguments the encoder loader is called with
InitModelKwargs(model_args) == model_args

\* the whole constructor, given the contents of the two dict objects it was
\* handed; returns the instance, the contents the dict objects are left with,
\* what each loader received and the collaborator calls made, in order
CamemBERT_init(path, max_seq_length, do_lower_case, model_args, tokenizer_args, fsys) ==
    LET m    == InitMaxSeqLength(max_seq_length)
        ta   == InitTokenizerArgs(do_lower_case, tokenizer_args)
        mk   == InitModelKwargs(model_args)
        enc  == CamembertModel_from_pretrained(path, mk, fsys)
        tok  == CamembertTokenizer_from_pretrained(path, ta, fsys)
    IN [ok |-> enc.ok /\ tok.ok,
        adapter |-> [max_seq_length |-> m.value,
                     do_lower_case |-> do_lower_case,
                     camembert |-> enc.obj,
                     tokenizer |-> tok.obj,
                     cls_token_id |-> ClsId,
                     sep_token_id |-> SepId],
        warned |-> m.warned,
        model_args |-> model_args,
        tokenizer_args |-> ta,
        model_kwargs |-> mk,
        tok_called |-> enc.ok,
        tokenizer_kwargs |-> ta,
        trace |-> (IF m.warned THEN <<"logging.warning">> ELSE <<>>)
                  \o <<"CamembertModel.from_pretrained">>
                  \o (IF enc.ok THEN <<"CamembertTokenizer.from_pretrained">> ELSE <<>>)]

-----------------------------------------------------------------------------
(* CamemBERT.tokenize and CamemBERT.get_sentence_features *)

Chars == {"A", "a"}

\* the tokenizer's lower-casing of one character
Lower(c) == IF c = "A" THEN "a" ELSE c

\* tokenizer.convert_tokens_to_ids on one token
VocabId(c) == CASE c = "A" -> 7 [] c = "a" -> 8

\* tokenizer.tokenize(text): one token per character, lower-cased first when
\* the tokenizer was configured with do_lower_case
Tokenizer_tokenize(tokenizer, text) ==
    [i \in 1..Len(text) |->
        IF tokenizer.do_lower_case = PyTrue THEN Lower(text[i]) ELSE text[i]]

\* line 55
tokenize(self, text) ==
    LET toks == Tokenizer_tokenize(self.tokenizer, text)
    IN [i \in 1..Len(toks) |-> VocabId(toks[i])]

\* tokenizer.prepare_for_model(tokens, max_length=n, pad_to_max_length=True,
\* return_tensors='pt') for n >= 2: the content is cut down so that it fits
\* with the two special tokens, <s> and </s> are put around it, the rest is
\* padding; the mask is 1 on what is not padding; one row per tensor
Tokenizer_prepare_for_model(tokens, max_length) ==
    LET keep  == Min(Len(tokens), max_length - 2)
        body  == <<ClsId>> \o SubSeq(tokens, 1, keep) \o <<SepId>>
        pad   == max_length - Len(body)
    IN [input_ids |-> << body \o [i \in 1..pad |-> PadId] >>,
        attention_mask |-> << [i \in 1..Len(body) |-> 1] \o [i \in 1..pad |-> 0] >>]

\* room for two special tokens instead of three (sensitivity of C2)
EffectivePadLength_TwoSlots(self, pad_seq_length) ==
    Min(pad_seq_length, self.max_seq_length) + 2

\* line 67
EffectivePadLength(self, pad_seq_length) ==
    Min(pad_seq_length, self.max_seq_length) + 3

\* lines 67-68
get_sentence_features(self, tokens, pad_seq_length) ==
    Tokenizer_prepare_for_model(tokens, EffectivePadLength(self, pad_seq_length))

-----------------------------------------------------------------------------
(* CamemBERT.forward *)

HiddenSize == 768

\* the keyword arguments the encoder's forward accepts
EncoderKwargs == {"input_ids", "attention_mask", "token_type_ids"}

\* the encoder's vector for token id at position p (a stand-in: one number)
Hidden(id, p) == id * 16 + p

\* self.camembert(**features): fails on a keyword it does not know or
\* without input_ids; returns (last hidden state, pooled output) and, when
\* configured with output_hidden_states, the stack of per-layer states
CamembertModel_call(camembert, kwargs) ==
    IF ~(DOMAIN kwargs \subseteq EncoderKwargs) \/ "input_ids" \notin DOMAIN kwargs
    THEN [ok |-> FALSE, output_states |-> <<>>]
    ELSE LET ids    == kwargs["input_ids"]
             tokens == [b \in 1..Len(ids) |-> [p \in 1..Len(ids[b]) |-> Hidden(ids[b][p], p)]]
             pooled == [b \in 1..Len(ids) |-> tokens[b][1]]
         IN [ok |-> TRUE,
             output_states |-> <<tokens, pooled>>
                 \o (IF camembert.output_hidden_states THEN << <<ids, tokens>> >> ELSE <<>>)]

\* the slice at the last position instead of the first (sensitivity of C5)
ClsSlice_LastPosition(output_tokens) ==
    [b \in 1..Len(output_tokens) |-> output_tokens[b][Len(output_tokens[b])]]

\* line 39: output_tokens[:, 0, :]
ClsSlice(output_tokens) == [b \in 1..Len(output_tokens) |-> output_tokens[b][1]]

\* index 2 read whatever the configuration (sensitivity of C8)
ReadsHiddenStates_Always(self) == TRUE

\* lines 42-43: whether index 2 of the output tuple is read
ReadsHiddenStates(self) == self.camembert.output_hidden_states

\* lines 34-46, on the content of the dict object it was handed; features is
\* the content that object is left with, returned_features whether the value
\* returned is that same object, read the indices read of the output tuple
forward(self, features) ==
    LET out == CamembertModel_call(self.camembert, features)
        output_states == out.output_states
        output_tokens == output_states[1]
        cls_tokens == ClsSlice(output_tokens)
        f1 == Update(features,
                     Put(Put(Put(EmptyDict, "token_embeddings", output_tokens),
                             "cls_token_embeddings", cls_tokens),
                         "attention_mask", features["attention_mask"]))
        failed(f, rd, err) == [ok |-> FALSE, error |-> err, features |-> f,
                               returned_features |-> FALSE, read |-> rd]
    IN IF ~out.ok THEN failed(features, {}, "encoder")
       ELSE IF "attention_mask" \notin DOMAIN features THEN failed(features, {0}, "KeyError")
       ELSE IF ~ReadsHiddenStates(self)
            THEN [ok |-> TRUE, error |-> "", features |-> f1,
                  returned_features |-> TRUE, read |-> {0}]
       ELSE IF Len(output_states) < 3 THEN failed(f1, {0, 2}, "IndexError")
       ELSE [ok |-> TRUE, error |-> "",
             features |-> Put(f1, "all_layer_embeddings", output_states[3]),
             returned_features |-> TRUE, read |-> {0, 2}]

\* line 49
get_word_embedding_dimension(self) == HiddenSize

-----------------------------------------------------------------------------
(* CamemBERT.get_config_dict, save and load *)

\* line 71
get_config_dict(self) == [key \in config_keys |-> self[key]]

\* json.dump / json.load of one value of the config
JsonValue(key, v) ==
    IF key = "do_lower_case"
    THEN CASE v = None -> "null" [] v = PyTrue -> "true" [] v = PyFalse -> "false"
    ELSE v

PyValue(key, j) ==
    IF key = "do_lower_case"
    THEN CASE j = "null" -> None [] j = "true" -> PyTrue [] j = "false" -> PyFalse
    ELSE j

json_dump(d) == [key \in DOMAIN d |-> JsonValue(key, d[key])]
json_load(doc) == [key \in DOMAIN doc |-> PyValue(key, doc[key])]

SaveOutcomes == {"ok", "camembert.save_pretrained", "tokenizer.save_pretrained", "json.dump"}
SaveOutcomesFew == {"ok", "tokenizer.save_pretrained", "json.dump"}

\* the sidecar written before the tokenizer is saved (sensitivity of C6)
SaveSteps_SidecarEarly == <<"camembert.save_pretrained", "open", "json.dump", "tokenizer.save_pretrained">>

\* the collaborator calls of save, in order (lines 74, 75, 77, 78)
SaveSteps == <<"camembert.save_pretrained", "tokenizer.save_pretrained", "open", "json.dump">>

\* the sidecar save writes (lines 77-78)
SaveSidecar(self) == [state |-> "ok", doc |-> json_dump(get_config_dict(self))]

\* lines 73-78 on a directory; failing names the collaborator call that
\* raises ("ok": none).  A call that raises has no effect, except that a
\* failing json.dump leaves the file that open(.., 'w') has just emptied.
save(self, dir, failing) ==
    LET idx(step) == CHOOSE i \in 1..Len(SaveSteps) : SaveSteps[i] = step
        n == IF failing = "ok" THEN Len(SaveSteps) ELSE idx(failing)
        done(step) == failing = "ok" \/ idx(step) < idx(failing)
    IN [ok |-> failing = "ok",
        trace |-> SubSeq(SaveSteps, 1, n),
        dir |-> [enc |-> IF done("camembert.save_pretrained") THEN self.camembert ELSE dir.enc,
                 tok |-> IF done("tokenizer.save_pretrained") THEN self.tokenizer ELSE dir.tok,
                 sidecar |-> IF done("json.dump") THEN SaveSidecar(self)
                             ELSE IF done("open") THEN BadSidecar
                             ELSE dir.sidecar]]

\* the value load hands the constructor for one parameter: **config binds
\* the keys of the sidecar, a parameter without a key takes its default
ConfigArg(config, key, default) == IF key \in DOMAIN config THEN config[key] ELSE default

\* a load that falls back to the constructor's defaults when the sidecar
\* cannot be read (sensitivity of C7)
load_WithFallback(input_path, fsys, model_args, tokenizer_args) ==
    LET sidecar == fsys[input_path].sidecar
        config  == IF sidecar.state = "ok" THEN json_load(sidecar.doc) ELSE EmptyDict
        r       == CamemBERT_init(input_path,
                                  ConfigArg(config, "max_seq_length", 128),
                                  ConfigArg(config, "do_lower_case", None),
                                  model_args, tokenizer_args, fsys)
    IN [init_called |-> TRUE, trace |-> <<"open", "json.load">>, init |-> r,
        max_seq_length |-> ConfigArg(config, "max_seq_length", 128),
        do_lower_case |-> ConfigArg(config, "do_lower_case", None)]

\* lines 81-84: the sidecar is read first; the constructor is called with the
\* directory and the recovered scalars, and with both default dict objects
load(input_path, fsys, model_args, tokenizer_args) ==
    LET sidecar == fsys[input_path].sidecar
        config  == json_load(sidecar.doc)
        r       == CamemBERT_init(input_path,
                                  ConfigArg(config, "max_seq_length", 128),
                                  ConfigArg(config, "do_lower_case", None),
                                  model_args, tokenizer_args, fsys)
    IN IF sidecar.state = "missing"
       THEN [init_called |-> FALSE, trace |-> <<"open">>]
       ELSE IF sidecar.state = "malformed"
       THEN [init_called |-> FALSE, trace |-> <<"open", "json.load">>]
       ELSE [init_called |-> TRUE, trace |-> <<"open", "json.load">>, init |-> r,
             max_seq_length |-> ConfigArg(config, "max_seq_length", 128),
             do_lower_case |-> ConfigArg(config, "do_lower_case", None)]

-----------------------------------------------------------------------------
(* Inputs *)

MaxSeqLengthInputs == {1, 511, 512}
DoLowerCaseInputs == {None, PyTrue, PyFalse}

\* an argument that is either omitted (the default object is used) or a
\* dict object of the caller
Omitted == [given |-> FALSE, dict |-> EmptyDict]
Given(d) == [given |-> TRUE, dict |-> d]

ModelArgsInputs == {Omitted, Given(Put(EmptyDict, "output_hidden_states", PyTrue))}
TokenizerArgsInputs == {Omitted, Given(EmptyDict), Given(Put(EmptyDict, "do_lower_case", PyTrue))}

SeqsUpTo(S, n) == UNION {[1..k -> S] : k \in 0..n}

TextInputs == SeqsUpTo(Chars, MaxText)
TokenInputs == SeqsUpTo({7, 8}, MaxTokens)
PadInputs == 0..MaxPad

\* feature dicts: a batch of one or two rows as get_sentence_features makes
\* them, with or without the mask, with token_type_ids, and one that has
\* been through forward already
Batch1 == [input_ids |-> << <<5, 7, 6>> >>, attention_mask |-> << <<1, 1, 1>> >>]
Batch2 == [input_ids |-> << <<5, 7, 6>>, <<5, 6, 1>> >>,
           attention_mask |-> << <<1, 1, 1>>, <<1, 1, 0>> >>]
FeatureInputs ==
    {Batch1, Batch2,
     [input_ids |-> Batch1.input_ids],
     Put(Batch1, "token_type_ids", << <<0, 0, 0>> >>),
     Put(Batch1, "token_embeddings", << <<81, 114, 99>> >>)}

OutputPaths == {"out"}

NoCall == [op |-> "none", ok |-> TRUE, self |-> {}, trace |-> <<>>]

-----------------------------------------------------------------------------
(* Actions *)

Init ==
    /\ adapters = {}
    /\ model_args_default = EmptyDict
    /\ tokenizer_args_default = EmptyDict
    /\ fs = [d \in Dirs |-> IF d = "hub" THEN HubDir ELSE EmptyDir]
    /\ saved_from = {}
    /\ last = NoCall

\* the instance the caller holds after a constructor call: it keeps the new
\* one if it holds none, and otherwise only looks at it (last.self)
Hold(held, r) == IF r.ok /\ held = {} THEN {r.adapter} ELSE held

\* what a call of the constructor leaves in last
InitCall(op, path, from, pre, r, max_seq_length, do_lower_case, margs_given, targs_given, ma, ta) ==
    [op |-> op, ok |-> r.ok,
     self |-> IF r.ok THEN {r.adapter} ELSE {},
     trace |-> pre \o r.trace,
     path |-> path,
     from |-> from,
     init_called |-> TRUE,
     max_seq_length |-> max_seq_length,
     do_lower_case |-> do_lower_case,
     model_args_given |-> margs_given,
     tokenizer_args_given |-> targs_given,
     model_args_before |-> ma,
     model_args_after |-> r.model_args,
     tokenizer_args_before |-> ta,
     tokenizer_args_after |-> r.tokenizer_args,
     model_kwargs |-> r.model_kwargs,
     tok_called |-> r.tok_called,
     tokenizer_kwargs |-> r.tokenizer_kwargs,
     warned |-> r.warned]

\* CamemBERT(path, max_seq_length, do_lower_case, model_args, tokenizer_args)
Construct(path, max_seq_length, do_lower_case, margs, targs) ==
    LET ma == IF margs.given THEN margs.dict ELSE model_args_default
        ta == IF targs.given THEN targs.dict ELSE tokenizer_args_default
        r  == CamemBERT_init(path, max_seq_length, do_lower_case, ma, ta, fs)
    IN /\ adapters' = Hold(adapters, r)
       /\ model_args_default' = IF margs.given THEN model_args_default ELSE r.model_args
       /\ tokenizer_args_default' = IF targs.given THEN tokenizer_args_default ELSE r.tokenizer_args
       /\ last' = InitCall("__init__", path, {}, <<>>, r, max_seq_length, do_lower_case,
                           margs.given, targs.given, ma, ta)
       /\ UNCHANGED <<fs, saved_from>>

\* CamemBERT.load(input_path)
Load(input_path) ==
    LET l == load(input_path, fs, model_args_default, tokenizer_args_default)
    IN IF ~l.init_called
       THEN /\ last' = [op |-> "load", ok |-> FALSE, self |-> {}, trace |-> l.trace,
                        path |-> input_path, init_called |-> FALSE]
            /\ UNCHANGED <<adapters, model_args_default, tokenizer_args_default, fs, saved_from>>
       ELSE /\ adapters' = Hold(adapters, l.init)
            /\ model_args_default' = l.init.model_args
            /\ tokenizer_args_default' = l.init.tokenizer_args
            /\ last' = InitCall("load", input_path,
                                IF input_path \in OutputPaths THEN saved_from ELSE {},
                                l.trace, l.init, l.max_seq_length, l.do_lower_case,
                                FALSE, FALSE, model_args_default, tokenizer_args_default)
            /\ UNCHANGED <<fs, saved_from>>

\* self.save(output_path), in which the collaborator call named by failing
\* raises
Save(self, output_path, failing) ==
    LET s == save(self, fs[output_path], failing)
    IN /\ fs' = [fs EXCEPT ![output_path] = s.dir]
       /\ saved_from' = IF s.ok THEN {self}
                        ELSE IF s.dir = fs[output_path] THEN saved_from ELSE {}
       /\ last' = [op |-> "save", ok |-> s.ok, self |-> {self}, trace |-> s.trace,
                   path |-> output_path, dir_before |-> fs[output_path]]
       /\ UNCHANGED <<adapters, model_args_default, tokenizer_args_default>>

\* self.tokenize(text)
Tokenize(self, text) ==
    /\ last' = [op |-> "tokenize", ok |-> TRUE, self |-> {self}, trace |-> <<>>,
                text |-> text, result |-> tokenize(self, text)]
    /\ UNCHANGED <<adapters, model_args_default, tokenizer_args_default, fs, saved_from>>

\* a get_sentence_features that stores the effective length in the instance
\* (sensitivity of C9)
GetSentenceFeatures_Storing(self, tokens, pad_seq_length) ==
    /\ adapters' = (adapters \ {self})
                   \cup {[self EXCEPT !.max_seq_length = EffectivePadLength(self, pad_seq_length)]}
    /\ last' = [op |-> "get_sentence_features", ok |-> TRUE, self |-> {self}, trace |-> <<>>,
                tokens |-> tokens, pad_seq_length |-> pad_seq_length,
                result |-> get_sentence_features(self, tokens, pad_seq_length)]
    /\ UNCHANGED <<model_args_default, tokenizer_args_default, fs, saved_from>>

\* self.get_sentence_features(tokens, pad_seq_length)
GetSentenceFeatures(self, tokens, pad_seq_length) ==
    /\ last' = [op |-> "get_sentence_features", ok |-> TRUE, self |-> {self}, trace |-> <<>>,
                tokens |-> tokens, pad_seq_length |-> pad_seq_length,
                result |-> get_sentence_features(self, tokens, pad_seq_length)]
    /\ UNCHANGED <<adapters, model_args_default, tokenizer_args_default, fs, saved_from>>

\* self.forward(features)
Forward(self, features) ==
    LET f == forward(self, features)
    IN /\ last' = [op |-> "forward", ok |-> f.ok, self |-> {self}, trace |-> <<"camembert">>,
                   error |-> f.error,
                   features_before |-> features, features_after |-> f.features,
                   returned_features |-> f.returned_features, read |-> f.read]
       /\ UNCHANGED <<adapters, model_args_default, tokenizer_args_default, fs, saved_from>>

\* self.get_word_embedding_dimension()
GetWordEmbeddingDimension(self) ==
    /\ last' = [op |-> "get_word_embedding_dimension", ok |-> TRUE, self |-> {self},
                trace |-> <<>>, result |-> get_word_embedding_dimension(self)]
    /\ UNCHANGED <<adapters, model_args_default, tokenizer_args_default, fs, saved_from>>

\* self.get_config_dict()
GetConfigDict(self) ==
    /\ last' = [op |-> "get_config_dict", ok |-> TRUE, self |-> {self},
                trace |-> <<>>, result |-> get_config_dict(self)]
    /\ UNCHANGED <<adapters, model_args_default, tokenizer_args_default, fs, saved_from>>

\* the caller lets go of an instance
Discard(self) ==
    /\ adapters' = adapters \ {self}
    /\ UNCHANGED <<model_args_default, tokenizer_args_default, fs, saved_from, last>>

\* Spec: every operation, on few inputs each
MaxSeqLengthFew == {1, 512}
ModelArgsFew == {Omitted}
TokenizerArgsFew == {Omitted, Given(Put(EmptyDict, "do_lower_case", PyTrue))}
TextFew == {<<"A", "a">>}
TokenFew == {<<7, 8, 7>>}
PadFew == {1}
FeatureFew == {Batch1, [input_ids |-> Batch1.input_ids],
               Put(Batch1, "token_embeddings", << <<81, 114, 99>> >>)}

Next ==
    \/ \E path \in Dirs, m \in MaxSeqLengthFew, d \in DoLowerCaseInputs,
          ma \in ModelArgsFew, ta \in TokenizerArgsFew :
          Construct(path, m, d, ma, ta)
    \/ \E path \in Dirs : Load(path)
    \/ \E self \in adapters, path \in OutputPaths, failing \in SaveOutcomesFew :
          Save(self, path, failing)
    \/ \E self \in adapters, text \in TextFew : Tokenize(self, text)
    \/ \E self \in adapters, tokens \in TokenFew, pad \in PadFew :
          GetSentenceFeatures(self, tokens, pad)
    \/ \E self \in adapters, features \in FeatureFew : Forward(self, features)
    \/ \E self \in adapters : GetWordEmbeddingDimension(self)
    \/ \E self \in adapters : GetConfigDict(self)
    \/ \E self \in adapters : Discard(self)

Spec == Init /\ [][Next]_vars

\* SpecInit: constructions only, on all inputs
NextInit ==
    \/ \E path \in Dirs, m \in MaxSeqLengthInputs, d \in DoLowerCaseInputs,
          ma \in ModelArgsInputs, ta \in TokenizerArgsInputs :
          Construct(path, m, d, ma, ta)
    \/ \E self \in adapters : Discard(self)

SpecInit == Init /\ [][NextInit]_vars

\* SpecCalls: the calls on one instance, constructed from the published
\* model on any inputs
InitCalls ==
    \E m \in MaxSeqLengthInputs, d \in DoLowerCaseInputs,
       ma \in ModelArgsInputs, ta \in TokenizerArgsInputs :
       LET fs0 == [dir \in Dirs |-> IF dir = "hub" THEN HubDir ELSE EmptyDir]
           r   == CamemBERT_init("hub", m, d,
                                 IF ma.given THEN ma.dict ELSE EmptyDict,
                                 IF ta.given THEN ta.dict ELSE EmptyDict, fs0)
       IN /\ adapters = {r.adapter}
          /\ model_args_default = EmptyDict
          /\ tokenizer_args_default = IF ta.given THEN EmptyDict ELSE r.tokenizer_args
          /\ fs = fs0
          /\ saved_from = {}
          /\ last = NoCall

NextCalls ==
    \/ \E self \in adapters, text \in TextInputs : Tokenize(self, text)
    \/ \E self \in adapters, tokens \in TokenInputs, pad \in PadInputs :
          GetSentenceFeatures(self, tokens, pad)
    \/ \E self \in adapters, features \in FeatureInputs : Forward(self, features)
    \/ \E self \in adapters : GetWordEmbeddingDimension(self)
    \/ \E self \in adapters : GetConfigDict(self)
    \/ \E self \in adapters, path \in OutputPaths, failing \in SaveOutcomes :
          Save(self, path, failing)

SpecCalls == InitCalls /\ [][NextCalls]_vars

-----------------------------------------------------------------------------
(* Properties *)

InitCalled == last.op \in {"__init__", "load"} /\ last.init_called

Count(t, x) == Cardinality({i \in 1..Len(t) : t[i] = x})

\* C1: a constructor call with max_seq_length > 511 logs a warning and its
\* instance has max_seq_length 511; with max_seq_length <= 511 it logs none
\* and its instance has the value passed; every instance has at most 511
C1_MaxSeqLengthClamped ==
    /\ \A a \in adapters \cup last.self : a.max_seq_length <= 511
    /\ last.op = "__init__" =>
          /\ last.max_seq_length > 511 =>
                /\ \A a \in last.self : a.max_seq_length = 511
                /\ last.warned
                /\ Count(last.trace, "logging.warning") = 1
          /\ last.max_seq_length <= 511 =>
                /\ \A a \in last.self : a.max_seq_length = last.max_seq_length
                /\ ~last.warned
                /\ Count(last.trace, "logging.warning") = 0

C1_Witness ==
    /\ last.op = "__init__" /\ last.ok
    /\ last.max_seq_length = 512
    /\ \E a \in last.self : a.max_seq_length = 511

\* C2: get_sentence_features(tokens, pad_seq_length) returns one row of
\* exactly min(pad_seq_length, max_seq_length) + 3 positions: <s>, the
\* tokens that fit, </s>, then padding; the mask is 1 exactly on what is
\* not padding
C2_FixedLength ==
    last.op = "get_sentence_features" =>
        \A a \in last.self :
            LET n    == (IF last.pad_seq_length < a.max_seq_length
                         THEN last.pad_seq_length ELSE a.max_seq_length) + 3
                ids  == last.result.input_ids[1]
                mask == last.result.attention_mask[1]
                kept == IF Len(last.tokens) < n - 2 THEN Len(last.tokens) ELSE n - 2
            IN /\ Len(ids) = n
               /\ Len(mask) = n
               /\ ids[1] = a.cls_token_id
               /\ \A i \in 1..kept : ids[i + 1] = last.tokens[i]
               /\ ids[kept + 2] = a.sep_token_id
               /\ \A i \in 1..n : (mask[i] = 1) <=> (i <= kept + 2)
               /\ \A i \in 1..n : (mask[i] = 0) <=> (i > kept + 2)
               /\ \A i \in 1..n : i > kept + 2 => ids[i] = PadId

C2_Witness ==
    /\ last.op = "get_sentence_features"
    /\ \E a \in last.self :
          /\ last.pad_seq_length > a.max_seq_length
          /\ Len(last.tokens) > a.max_seq_length + 1
          /\ Len(last.result.input_ids[1]) = a.max_seq_length + 3

\* C3: load of a directory into which A was saved yields B with
\* B.get_config_dict() = A.get_config_dict() and B.tokenize(s) = A.tokenize(s)
\* for every text s
C3_RoundTrip ==
    (last.op = "load" /\ last.ok) =>
        \A A \in last.from, B \in last.self :
            /\ get_config_dict(B) = get_config_dict(A)
            /\ \A s \in TextInputs : tokenize(B, s) = tokenize(A, s)

\* C4: a constructor call with do_lower_case=None and no tokenizer_args of
\* the caller hands the tokenizer loader no do_lower_case entry, whatever
\* was constructed before
C4_NoOverrideUnlessGiven ==
    (InitCalled /\ last.tok_called /\ last.do_lower_case = None /\ ~last.tokenizer_args_given)
        => "do_lower_case" \notin DOMAIN last.tokenizer_kwargs

\* C5: forward returns the dict it was handed; attention_mask and every
\* other input field keep their values; token_embeddings is the first
\* element of the encoder output, one row per row of the batch, and
\* cls_token_embeddings is its slice at position 0
C5_ForwardFrame ==
    (last.op = "forward" /\ last.ok) =>
        \A a \in last.self :
            LET before == last.features_before
                after  == last.features_after
                out    == CamembertModel_call(a.camembert, before).output_states
            IN /\ last.returned_features
               /\ after["attention_mask"] = before["attention_mask"]
               /\ \A k \in DOMAIN before : k \in DOMAIN after /\ after[k] = before[k]
               /\ {"token_embeddings", "cls_token_embeddings"} \subseteq DOMAIN after
               /\ after["token_embeddings"] = out[1]
               /\ Len(after["token_embeddings"]) = Len(before["input_ids"])
               /\ Len(after["cls_token_embeddings"]) = Len(before["input_ids"])
               /\ \A b \in 1..Len(before["input_ids"]) :
                     after["cls_token_embeddings"][b] = after["token_embeddings"][b][1]

C5_Witness ==
    /\ last.op = "forward" /\ last.ok
    /\ Len(last.features_before["input_ids"]) = 2
    /\ "token_type_ids" \notin DOMAIN last.features_before
    /\ last.features_after["cls_token_embeddings"] = <<81, 81>>

\* C6: save calls the encoder's save, then the tokenizer's save, then writes
\* the sidecar; a sidecar it has written holds exactly max_seq_length and
\* do_lower_case with the instance's values, and is written only after both
\* delegate saves completed
C6_SaveOrder ==
    last.op = "save" =>
        \A a \in last.self :
            LET t   == last.trace
                dir == fs[last.path]
                written == [state |-> "ok",
                            doc |-> [max_seq_length |-> a.max_seq_length,
                                     do_lower_case |->
                                         CASE a.do_lower_case = None -> "null"
                                           [] a.do_lower_case = PyTrue -> "true"
                                           [] a.do_lower_case = PyFalse -> "false"]]
            IN /\ t[1] = "camembert.save_pretrained"
               /\ Len(t) >= 2 => t[2] = "tokenizer.save_pretrained"
               /\ \A i \in 1..Len(t) : t[i] \in {"open", "json.dump"} => i > 2
               /\ last.ok => dir.sidecar = written /\ DOMAIN dir.sidecar.doc = config_keys
               /\ dir.sidecar.state = "ok" => Cardinality(DOMAIN dir.sidecar.doc) = 2
               /\ (dir.sidecar # last.dir_before.sidecar \/ "open" \in {t[i] : i \in 1..Len(t)}) =>
                     /\ dir.enc = a.camembert
                     /\ dir.tok = a.tokenizer

C6_Witness ==
    /\ last.op = "save" /\ last.ok
    /\ fs[last.path].sidecar.state = "ok"
    /\ last.dir_before.sidecar.state # "ok"

\* C7: a collaborator's failure ends the operation, with no second attempt
\* and nothing in its place: load of a directory whose sidecar is missing or
\* malformed fails before either loader is called; a constructor call on a
\* directory whose encoder or tokenizer cannot be loaded yields no instance;
\* a forward whose encoder call fails leaves the feature dict as it was
C7_FailuresPropagate ==
    /\ \A c \in {"CamembertModel.from_pretrained", "CamembertTokenizer.from_pretrained",
                 "camembert.save_pretrained", "tokenizer.save_pretrained",
                 "open", "json.load", "json.dump", "camembert"} :
           Count(last.trace, c) <= 1
    /\ (last.op = "load" /\ fs[last.path].sidecar.state # "ok") =>
           /\ ~last.ok /\ last.self = {}
           /\ last.trace[1] = "open"
           /\ Count(last.trace, "CamembertModel.from_pretrained") = 0
           /\ Count(last.trace, "CamembertTokenizer.from_pretrained") = 0
    /\ (last.op \in {"__init__", "load"}
            /\ (~fs[last.path].enc.present \/ ~fs[last.path].tok.present)) =>
           ~last.ok /\ last.self = {}
    /\ (last.op = "forward"
            /\ \E a \in last.self : ~CamembertModel_call(a.camembert, last.features_before).ok) =>
           /\ ~last.ok
           /\ last.features_after = last.features_before
           /\ {"token_embeddings", "cls_token_embeddings"} \cap DOMAIN last.features_after
                  = {"token_embeddings", "cls_token_embeddings"} \cap DOMAIN last.features_before

C7_Witness ==
    /\ last.op = "load" /\ ~last.ok
    /\ fs[last.path].sidecar.state = "malformed"
    /\ fs[last.path].enc.present /\ fs[last.path].tok.present

\* C8: forward adds all_layer_embeddings, the element at index 2 of the
\* encoder output, exactly when the encoder's configuration has
\* output_hidden_states; when it has not, index 2 is never read
C8_HiddenStatesGuard ==
    last.op = "forward" =>
        \A a \in last.self :
            LET before == last.features_before
                after  == last.features_after
                call   == CamembertModel_call(a.camembert, before)
            IN /\ ~a.camembert.output_hidden_states => 2 \notin last.read
               /\ (call.ok /\ "attention_mask" \in DOMAIN before) => last.ok
               /\ last.ok =>
                     IF a.camembert.output_hidden_states
                     THEN /\ "all_layer_embeddings" \in DOMAIN after
                          /\ after["all_layer_embeddings"] = call.output_states[3]
                          /\ 2 \in last.read
                     ELSE "all_layer_embeddings" \notin DOMAIN after

C8_Witness ==
    /\ last.op = "forward" /\ last.ok
    /\ \E a \in last.self : a.camembert.output_hidden_states
    /\ "all_layer_embeddings" \in DOMAIN last.features_after

\* C9: no call of tokenize, get_sentence_features, forward,
\* get_word_embedding_dimension, get_config_dict or save changes the
\* instance's max_seq_length, do_lower_case, cls_token_id or sep_token_id,
\* and get_config_dict returns the values the instance was constructed with
C9_Stateless ==
    [][/\ \A a \in adapters : \E b \in adapters' :
              /\ b.max_seq_length = a.max_seq_length
              /\ b.do_lower_case = a.do_lower_case
              /\ b.cls_token_id = a.cls_token_id
              /\ b.sep_token_id = a.sep_token_id
       /\ Cardinality(adapters') = Cardinality(adapters)
       /\ last'.op = "get_config_dict" =>
              \E a \in adapters :
                  last'.result = [max_seq_length |-> a.max_seq_length,
                                  do_lower_case |-> a.do_lower_case]]_vars

C9_Witness ==
    /\ last.op = "get_sentence_features"
    /\ last.pad_seq_length = 0
    /\ fs["out"].sidecar.state = "ok"
    /\ adapters # {}

\* C10: the encoder loader receives exactly the caller's model_args, and the
\* dicts the caller passed as model_args and tokenizer_args hold after the
\* constructor call what they held before it
C10_ArgsUntouched ==
    last.op = "__init__" =>
        /\ last.model_kwargs = last.model_args_before
        /\ last.model_args_given => last.model_args_after = last.model_args_before
        /\ last.tokenizer_args_given => last.tokenizer_args_after = last.tokenizer_args_before

====
